---- MODULE Spec2Model ----
(***************************************************************************)
(* A model of c_src/mylib.c (25-ffi-c-interop): the managed callback       *)
(* registry (register / unregister / trigger by handle) and the opaque     *)
(* db_connection resource (db_open / db_execute / db_get_last_error /      *)
(* db_close).                                                              *)
(*                                                                         *)
(* Pointers are modelled by name: the string "NULL" is the null function   *)
(* or data pointer, a db_connection_t* is the index of a heap cell with 0  *)
(* for NULL, and a const char* is a record [null, chars].                  *)
(***************************************************************************)
EXTENDS Integers, Sequences, FiniteSets

\* ------------------------------------------------------------------ bounds

\* register_managed_callback is explored while next_handle < MaxHandle.
MaxHandle == 5

\* The same guard in the capacity specification, where the table fills up.
MaxHandleCap == 19

\* Number of heap cells malloc can hand out to db_open.
MaxConn == 2

\* db_execute is explored while query_count < MaxQueries.
MaxQueries == 3

\* The lists are filled with varied callbacks while their count < MaxList.
MaxList == 3

\* The callbacks of one trigger pass make at most MaxReenter calls into the
\* registry.
MaxReenter == 3

\* c_error_message is applied to the codes -MaxCode .. MaxCode and to the
\* two ends of int32.
MaxCode == 6

\* ------------------------------------------------------- program constants

MAX_CALLBACKS == 16

SUCCESS == 0
ERROR_NULL_POINTER == -1
ERROR_INVALID_INPUT == -2
ERROR_COMPUTATION_FAILED == -3

\* The value register_managed_callback returns when no slot is free.
NO_SPACE == -1

NULL == "NULL"

\* ------------------------------------------------------------------ inputs

Slots == 0 .. (MAX_CALLBACKS - 1)

\* (callback, user_data) pairs a caller registers in Spec.
Registrations == { <<"cbA", "ctx1">>, <<NULL, "ctx2">> }

\* The one pair registered in SpecCap.
CapRegistration == <<"cbA", "ctx1">>

\* Values passed to trigger_managed_callbacks.
Values == {7}

\* Handles passed to unregister_managed_callback in Spec: the failure value,
\* zero, every handle that can have been issued and one that cannot.
UnregisterArgs == NO_SPACE .. MaxHandle

\* Handles passed to unregister_managed_callback in SpecCap.
UnregisterArgsCap == {NO_SPACE, 1, 2, MAX_CALLBACKS}

CStr(s) == [null |-> FALSE, chars |-> s]
NULLSTR == [null |-> TRUE, chars |-> <<>>]

\* SQL commands passed to db_execute, as character sequences.
Commands ==
  { CStr(<<"S", "E", "L", "E", "C", "T", " ", "1">>),
    CStr(<<"D", "O", " ", "E", "R", "R", "O", "R">>),
    CStr(<<"E", "R", "R", "O", "R", "S">>),
    CStr(<<"E", "R", "R", "O">>),
    CStr(<<"e", "r", "r", "o", "r">>),
    CStr(<<>>),
    NULLSTR }

\* Paths passed to db_open.
Paths == { CStr(<<"x">>), NULLSTR }

Conns == 1 .. MaxConn

\* ------------------------------------------------------------------- state

VARIABLES
  managed_callbacks,  \* static managed_callback_t managed_callbacks[MAX_CALLBACKS]
  next_handle,        \* static int32_t next_handle
  heap,               \* the db_connection objects, by address
  call,               \* the most recent call: operation, arguments, result
                      \* (for db_execute also "seen": the object it found)
  invoked,            \* the callback invocations made by the most recent call
  crashed,            \* the process died in undefined behaviour
  registrations,      \* history: every successful register, in order
  revoked,            \* history: issued handles whose unregister has returned
  exec_ret,           \* history: result of the last db_execute with a command, per connection
  uaf,                \* history: a released db_connection was read, written or freed again
  simple_callbacks,          \* static simple_callback_t simple_callbacks[MAX_CALLBACKS]
  simple_callback_count,     \* static int simple_callback_count
  callbacks_with_data,       \* static callback_entry_t callbacks_with_data[MAX_CALLBACKS]
  callback_with_data_count,  \* static int callback_with_data_count
  since_clear,        \* history: the entries each list accepted since its last clear
  in_pass,            \* the trigger loop in progress, when callbacks re-enter
  accepted            \* history: accepted db_execute calls per connection since its db_open

vars == << managed_callbacks, next_handle, heap, call, invoked, crashed,
           registrations, revoked, exec_ret, uaf,
           simple_callbacks, simple_callback_count, callbacks_with_data,
           callback_with_data_count, since_clear, in_pass, accepted >>

list_vars == << simple_callbacks, simple_callback_count, callbacks_with_data,
                callback_with_data_count, since_clear >>
ext_vars == << list_vars, in_pass >>

registry_vars == << managed_callbacks, next_handle, registrations, revoked >>
db_vars == << heap, exec_ret, uaf, accepted >>

\* A zero-initialised managed_callback_t (static storage).
ZeroSlot == [handle |-> 0, callback |-> NULL, user_data |-> NULL, active |-> 0]

\* A heap cell malloc has not handed out yet.
NoCell == [status |-> "unallocated", path |-> NULLSTR, connected |-> 0,
           last_error |-> "", query_count |-> 0]

\* A zero-initialised callback_entry_t (static storage).
ZeroEntry == [callback |-> NULL, user_data |-> NULL]

\* No trigger loop is in progress.
NoPass == [kind |-> "none"]

Init ==
  /\ managed_callbacks = [i \in Slots |-> ZeroSlot]
  /\ next_handle = 1
  /\ heap = [c \in Conns |-> NoCell]
  /\ call = [op |-> "none"]
  /\ invoked = << >>
  /\ crashed = FALSE
  /\ registrations = << >>
  /\ revoked = {}
  /\ exec_ret = [c \in Conns |-> [done |-> FALSE, ret |-> SUCCESS]]
  /\ uaf = FALSE
  /\ simple_callbacks = [i \in Slots |-> NULL]
  /\ simple_callback_count = 0
  /\ callbacks_with_data = [i \in Slots |-> ZeroEntry]
  /\ callback_with_data_count = 0
  /\ since_clear = [simple |-> << >>, data |-> << >>]
  /\ in_pass = NoPass
  /\ accepted = [c \in Conns |-> 0]

\* Undefined behaviour ends the behaviour: after a crash, or after a released
\* object has been used, nothing more is explored.
Running == ~crashed /\ ~uaf

\* ------------------------------------------------- managed callback registry

Min(S) == CHOOSE x \in S : \A y \in S : x <= y

\* A scan that keeps the last inactive slot it sees.
LastInactive ==
  LET free == { i \in Slots : managed_callbacks[i].active = 0 }
  IN  IF free = {} THEN 0 - 1 ELSE CHOOSE x \in free : \A y \in free : y <= x

\* The slot the scan of register_managed_callback stops at, or -1.
FirstInactive ==
  LET free == { i \in Slots : managed_callbacks[i].active = 0 }
  IN  IF free = {} THEN 0 - 1 ELSE Min(free)

\* A registration that numbers its handle after the slot it lands in.
IssuedHandleBySlot(i) == i + 1

\* The handle a registration into slot i is given.
IssuedHandle(i) == next_handle

\* A registration that forgets to advance the counter.
StuckHandle == next_handle

\* The counter after a successful registration.
AdvancedHandle == next_handle + 1

\* The table after the four stores of a registration into slot i.
RegisteredTable(i, callback, user_data) ==
  [managed_callbacks EXCEPT ![i] =
     [handle |-> IssuedHandle(i), callback |-> callback,
      user_data |-> user_data, active |-> 1]]

\* The table after a register call that found no inactive slot.
FullTable(callback, user_data) == managed_callbacks

\* A failed registration that still consumes a handle.
ConsumedHandle == next_handle + 1

\* The counter after a register call that found no inactive slot.
FullHandle == next_handle

register_managed_callback(callback, user_data) ==
  /\ Running
  /\ LET i == FirstInactive IN
       IF i >= 0
       THEN /\ managed_callbacks' = RegisteredTable(i, callback, user_data)
            /\ next_handle' = AdvancedHandle
            /\ call' = [op |-> "register_managed_callback", callback |-> callback,
                        user_data |-> user_data,
                        ret |-> RegisteredTable(i, callback, user_data)[i].handle]
            /\ registrations' = Append(registrations,
                 [handle |-> RegisteredTable(i, callback, user_data)[i].handle,
                  callback |-> callback, user_data |-> user_data, slot |-> i])
       ELSE /\ managed_callbacks' = FullTable(callback, user_data)
            /\ next_handle' = FullHandle
            /\ call' = [op |-> "register_managed_callback", callback |-> callback,
                        user_data |-> user_data, ret |-> NO_SPACE]
            /\ registrations' = registrations
  /\ invoked' = << >>
  /\ UNCHANGED << revoked, crashed, db_vars, ext_vars >>

\* A revocation that takes the handle for a slot number.
MatchingSlotByIndex(handle) ==
  IF (handle - 1) \in Slots /\ managed_callbacks[handle - 1].active # 0
  THEN handle - 1 ELSE 0 - 1

\* The slot the scan of unregister_managed_callback stops at, or -1.
MatchingSlot(handle) ==
  LET hit == { i \in Slots : /\ managed_callbacks[i].active # 0
                             /\ managed_callbacks[i].handle = handle }
  IN  IF hit = {} THEN 0 - 1 ELSE Min(hit)

\* A revocation that also clears the stored callback and context.
RevokedTableCleared(i) ==
  [managed_callbacks EXCEPT ![i].active = 0, ![i].callback = NULL,
                            ![i].user_data = NULL]

\* The table after slot i is revoked.
RevokedTable(i) == [managed_callbacks EXCEPT ![i].active = 0]

IssuedHandles == { registrations[k].handle : k \in 1 .. Len(registrations) }

unregister_managed_callback(handle) ==
  /\ Running
  /\ LET i == MatchingSlot(handle) IN
       managed_callbacks' = IF i >= 0 THEN RevokedTable(i) ELSE managed_callbacks
  /\ call' = [op |-> "unregister_managed_callback", handle |-> handle]
  /\ invoked' = << >>
  /\ revoked' = IF handle \in IssuedHandles THEN revoked \cup {handle} ELSE revoked
  /\ UNCHANGED << next_handle, registrations, crashed, db_vars, ext_vars >>

\* The invocation trigger_managed_callbacks makes at slot i.
Invocation(i, value) ==
  [slot |-> i, handle |-> managed_callbacks[i].handle,
   callback |-> managed_callbacks[i].callback,
   user_data |-> managed_callbacks[i].user_data, value |-> value]

\* Whether the loop body of trigger_managed_callbacks makes a call at slot i.
Visits(i) == managed_callbacks[i].active # 0

\* A pass that makes its invocations in the opposite order.
RECURSIVE TriggerFromPrepending(_, _, _)
TriggerFromPrepending(i, value, done) ==
  IF i >= MAX_CALLBACKS THEN [calls |-> done, crashed |-> FALSE]
  ELSE IF ~Visits(i) THEN TriggerFromPrepending(i + 1, value, done)
  ELSE IF managed_callbacks[i].callback = NULL THEN [calls |-> done, crashed |-> TRUE]
  ELSE TriggerFromPrepending(i + 1, value, << Invocation(i, value) >> \o done)

\* The loop of trigger_managed_callbacks from slot i on, given the
\* invocations made so far.  A call through a null function pointer is
\* undefined behaviour: the process dies there.
RECURSIVE TriggerFrom(_, _, _)
TriggerFrom(i, value, done) ==
  IF i >= MAX_CALLBACKS THEN [calls |-> done, crashed |-> FALSE]
  ELSE IF ~Visits(i) THEN TriggerFrom(i + 1, value, done)
  ELSE IF managed_callbacks[i].callback = NULL THEN [calls |-> done, crashed |-> TRUE]
  ELSE TriggerFrom(i + 1, value, Append(done, Invocation(i, value)))

trigger_managed_callbacks(value) ==
  /\ Running
  /\ LET pass == TriggerFrom(0, value, << >>) IN
       /\ invoked' = pass.calls
       /\ crashed' = pass.crashed
  /\ call' = [op |-> "trigger_managed_callbacks", value |-> value]
  /\ UNCHANGED << registry_vars, db_vars, ext_vars >>

\* The registry driven with varied callbacks and contexts.
Next ==
  \/ \E r \in Registrations :
       /\ next_handle < MaxHandle
       /\ register_managed_callback(r[1], r[2])
  \/ \E h \in UnregisterArgs : unregister_managed_callback(h)
  \/ \E v \in Values : trigger_managed_callbacks(v)

Spec == Init /\ [][Next]_vars

\* The registry driven up to and beyond its capacity.
NextCap ==
  \/ /\ next_handle < MaxHandleCap
     /\ register_managed_callback(CapRegistration[1], CapRegistration[2])
  \/ \E h \in UnregisterArgsCap : unregister_managed_callback(h)
  \/ \E v \in Values : trigger_managed_callbacks(v)

SpecCap == Init /\ [][NextCap]_vars

\* ------------------------------------------- simple and context registries

\* A capacity check that is off by one.
SimpleAcceptsOffByOne(callback) ==
  simple_callback_count <= MAX_CALLBACKS /\ callback # NULL

\* Whether register_simple_callback stores the callback.
SimpleAccepts(callback) ==
  simple_callback_count < MAX_CALLBACKS /\ callback # NULL

\* The array and the count after register_simple_callback stored a callback.
SimpleStored(callback) ==
  [simple_callbacks EXCEPT ![simple_callback_count] = callback]

SimpleCounted == simple_callback_count + 1

register_simple_callback(callback) ==
  /\ Running
  /\ IF SimpleAccepts(callback)
     THEN /\ simple_callbacks' = SimpleStored(callback)
          /\ simple_callback_count' = SimpleCounted
          /\ since_clear' = [since_clear EXCEPT !.simple = Append(@, callback)]
     ELSE UNCHANGED << simple_callbacks, simple_callback_count, since_clear >>
  /\ call' = [op |-> "register_simple_callback", callback |-> callback,
              before |-> simple_callback_count]
  /\ invoked' = << >>
  /\ UNCHANGED << callbacks_with_data, callback_with_data_count, in_pass, crashed,
                  registry_vars, db_vars >>

\* The invocation trigger_simple_callbacks makes at index i.
SimpleInvocation(i, value) ==
  [slot |-> i, callback |-> simple_callbacks[i], value |-> value]

\* The loop of trigger_simple_callbacks from index i on, given the
\* invocations made so far; a call through a null pointer ends the process.
RECURSIVE SimpleTriggerFrom(_, _, _)
SimpleTriggerFrom(i, value, done) ==
  IF i >= simple_callback_count THEN [calls |-> done, crashed |-> FALSE]
  ELSE IF simple_callbacks[i] = NULL THEN [calls |-> done, crashed |-> TRUE]
  ELSE SimpleTriggerFrom(i + 1, value, Append(done, SimpleInvocation(i, value)))

trigger_simple_callbacks(value) ==
  /\ Running
  /\ LET loop == SimpleTriggerFrom(0, value, << >>) IN
       /\ invoked' = loop.calls
       /\ crashed' = loop.crashed
  /\ call' = [op |-> "trigger_simple_callbacks", value |-> value]
  /\ UNCHANGED << list_vars, in_pass, registry_vars, db_vars >>

\* A clear that leaves the first entry registered.
SimpleClearedKeepsFirst == IF simple_callback_count > 0 THEN 1 ELSE 0

\* The count after clear_simple_callbacks.
SimpleCleared == 0

clear_simple_callbacks ==
  /\ Running
  /\ simple_callback_count' = SimpleCleared
  /\ since_clear' = [since_clear EXCEPT !.simple = << >>]
  /\ call' = [op |-> "clear_simple_callbacks"]
  /\ invoked' = << >>
  /\ UNCHANGED << simple_callbacks, callbacks_with_data, callback_with_data_count,
                  in_pass, crashed, registry_vars, db_vars >>

\* Whether register_callback_with_data stores the entry.
DataAccepts(callback, user_data) ==
  callback_with_data_count < MAX_CALLBACKS /\ callback # NULL

\* The array and the count after register_callback_with_data stored an entry.
DataStored(callback, user_data) ==
  [callbacks_with_data EXCEPT ![callback_with_data_count] =
     [callback |-> callback, user_data |-> user_data]]

DataCounted == callback_with_data_count + 1

register_callback_with_data(callback, user_data) ==
  /\ Running
  /\ IF DataAccepts(callback, user_data)
     THEN /\ callbacks_with_data' = DataStored(callback, user_data)
          /\ callback_with_data_count' = DataCounted
          /\ since_clear' = [since_clear EXCEPT !.data =
               Append(@, [callback |-> callback, user_data |-> user_data])]
     ELSE UNCHANGED << callbacks_with_data, callback_with_data_count, since_clear >>
  /\ call' = [op |-> "register_callback_with_data", callback |-> callback,
              user_data |-> user_data, before |-> callback_with_data_count]
  /\ invoked' = << >>
  /\ UNCHANGED << simple_callbacks, simple_callback_count, in_pass, crashed,
                  registry_vars, db_vars >>

\* An invocation that hands every callback the context of the first entry.
DataInvocationFirstContext(i, value) ==
  [slot |-> i, callback |-> callbacks_with_data[i].callback,
   user_data |-> callbacks_with_data[0].user_data, value |-> value]

\* The invocation trigger_callbacks_with_data makes at index i.
DataInvocation(i, value) ==
  [slot |-> i, callback |-> callbacks_with_data[i].callback,
   user_data |-> callbacks_with_data[i].user_data, value |-> value]

\* The loop of trigger_callbacks_with_data from index i on.
RECURSIVE DataTriggerFrom(_, _, _)
DataTriggerFrom(i, value, done) ==
  IF i >= callback_with_data_count THEN [calls |-> done, crashed |-> FALSE]
  ELSE IF callbacks_with_data[i].callback = NULL THEN [calls |-> done, crashed |-> TRUE]
  ELSE DataTriggerFrom(i + 1, value, Append(done, DataInvocation(i, value)))

trigger_callbacks_with_data(value) ==
  /\ Running
  /\ LET loop == DataTriggerFrom(0, value, << >>) IN
       /\ invoked' = loop.calls
       /\ crashed' = loop.crashed
  /\ call' = [op |-> "trigger_callbacks_with_data", value |-> value]
  /\ UNCHANGED << list_vars, in_pass, registry_vars, db_vars >>

\* The count after clear_callbacks_with_data.
DataCleared == 0

clear_callbacks_with_data ==
  /\ Running
  /\ callback_with_data_count' = DataCleared
  /\ since_clear' = [since_clear EXCEPT !.data = << >>]
  /\ call' = [op |-> "clear_callbacks_with_data"]
  /\ invoked' = << >>
  /\ UNCHANGED << simple_callbacks, simple_callback_count, callbacks_with_data,
                  in_pass, crashed, registry_vars, db_vars >>

\* Callbacks passed to register_simple_callback in SpecList.
SimpleCallbacks == { "cbA", "cbB", NULL }

\* (callback, user_data) pairs passed to register_callback_with_data in SpecList.
DataEntries == { <<"cbA", "ctx1">>, <<"cbB", "ctx2">>, <<NULL, "ctx1">> }

\* The two lists driven with varied callbacks, a few entries each.
NextList ==
  \/ \E cb \in SimpleCallbacks :
       /\ simple_callback_count < MaxList
       /\ register_simple_callback(cb)
  \/ \E v \in Values : trigger_simple_callbacks(v)
  \/ clear_simple_callbacks
  \/ \E e \in DataEntries :
       /\ callback_with_data_count < MaxList
       /\ register_callback_with_data(e[1], e[2])
  \/ \E v \in Values : trigger_callbacks_with_data(v)
  \/ clear_callbacks_with_data

SpecList == Init /\ [][NextList]_vars

\* The two lists driven up to and beyond their capacity.
NextListCap ==
  \/ \E cb \in {"cbA", NULL} : register_simple_callback(cb)
  \/ \E v \in Values : trigger_simple_callbacks(v)
  \/ clear_simple_callbacks
  \/ \E cb \in {"cbA", NULL} : register_callback_with_data(cb, "ctx1")
  \/ \E v \in Values : trigger_callbacks_with_data(v)
  \/ clear_callbacks_with_data

SpecListCap == Init /\ [][NextListCap]_vars

\* ------------------------------------------------------------ db_connection

\* strstr: the index of the first occurrence of needle in haystack, 0 for NULL.
strstr(haystack, needle) ==
  LET at == { k \in 1 .. (Len(haystack) - Len(needle) + 1) :
                SubSeq(haystack, k, k + Len(needle) - 1) = needle }
  IN  IF Len(needle) = 0 THEN 1 ELSE IF at = {} THEN 0 ELSE Min(at)

\* The marker db_execute looks for.
ERROR_MARKER == <<"E", "R", "R", "O", "R">>

\* The strings mylib.c stores in, or returns for, last_error.
ErrorStrings == {"", "Not connected", "Simulated query error"}

\* What a read of released memory may find there.
Garbage ==
  [status : {"freed"}, path : {NULLSTR}, connected : {0, 1},
   last_error : ErrorStrings, query_count : {0, MaxQueries - 1}]

\* The pointers a caller holds: NULL and whatever db_open has returned.
Handles == {0} \cup { c \in Conns : heap[c].status # "unallocated" }

\* What the code finds behind conn: the object while it is live, anything
\* once it has been released.
Contents(conn) == IF heap[conn].status = "live" THEN {heap[conn]} ELSE Garbage

\* An object db_open forgets to mark connected.
OpenedCellNotConnected(path) ==
  [status |-> "live", path |-> path, connected |-> 0, last_error |-> "",
   query_count |-> 0]

\* The object db_open initialises at a fresh address.
OpenedCell(path) ==
  [status |-> "live", path |-> path, connected |-> 1, last_error |-> "",
   query_count |-> 0]

\* malloc either fails or returns the lowest address not handed out yet (a
\* released address is not handed out again); strdup is taken to succeed.
db_open(path) ==
  /\ Running
  /\ \E c \in {0} \cup { d \in Conns : /\ heap[d].status = "unallocated"
                                        /\ \A e \in Conns : e < d => heap[e].status # "unallocated" } :
       IF path.null \/ c = 0
       THEN /\ heap' = heap
            /\ accepted' = accepted
            /\ call' = [op |-> "db_open", path |-> path, conn |-> 0]
       ELSE /\ heap' = [heap EXCEPT ![c] = OpenedCell(path)]
            /\ accepted' = [accepted EXCEPT ![c] = 0]
            /\ call' = [op |-> "db_open", path |-> path, conn |-> c]
  /\ invoked' = << >>
  /\ UNCHANGED << exec_ret, uaf, crashed, registry_vars, ext_vars >>

\* The object after db_execute found it not connected.
NotConnectedCell(m) == [m EXCEPT !.last_error = "Not connected"]

\* The operation count after db_execute has accepted a command.
CountedQuery(m) == m.query_count + 1

\* An accepted command that never clears the previous error.
ExecutedCellKeepsError(m, sql) ==
  IF strstr(sql.chars, ERROR_MARKER) # 0
  THEN [m EXCEPT !.query_count = CountedQuery(m), !.last_error = "Simulated query error"]
  ELSE [m EXCEPT !.query_count = CountedQuery(m)]

\* An operation count that counts the successful commands only.
ExecutedCellCountsSuccesses(m, sql) ==
  IF strstr(sql.chars, ERROR_MARKER) # 0
  THEN [m EXCEPT !.last_error = "Simulated query error"]
  ELSE [m EXCEPT !.query_count = CountedQuery(m), !.last_error = ""]

\* The object after an accepted command, and the code returned.
ExecutedCell(m, sql) ==
  IF strstr(sql.chars, ERROR_MARKER) # 0
  THEN [m EXCEPT !.query_count = CountedQuery(m), !.last_error = "Simulated query error"]
  ELSE [m EXCEPT !.query_count = CountedQuery(m), !.last_error = ""]

ExecutedCode(sql) ==
  IF strstr(sql.chars, ERROR_MARKER) # 0 THEN ERROR_COMPUTATION_FAILED ELSE SUCCESS

\* A first check that forgets the command.
NullArgumentConnOnly(conn, sql) == conn = 0

\* Whether db_execute returns at its first check.
NullArgument(conn, sql) == conn = 0 \/ sql.null

db_execute(conn, sql) ==
  /\ Running
  /\ IF NullArgument(conn, sql)
     THEN /\ call' = [op |-> "db_execute", conn |-> conn, sql |-> sql,
                      ret |-> ERROR_NULL_POINTER, seen |-> NoCell]
          /\ UNCHANGED << heap, exec_ret, uaf, accepted >>
     ELSE \E m \in Contents(conn) :
            /\ uaf' = (uaf \/ heap[conn].status # "live")
            /\ IF m.connected = 0
               THEN /\ heap' = [heap EXCEPT ![conn] = NotConnectedCell(m)]
                    /\ call' = [op |-> "db_execute", conn |-> conn, sql |-> sql,
                                ret |-> ERROR_INVALID_INPUT, seen |-> m]
                    /\ exec_ret' = [exec_ret EXCEPT ![conn] =
                                      [done |-> TRUE, ret |-> ERROR_INVALID_INPUT]]
                    /\ accepted' = accepted
               ELSE /\ m.query_count < MaxQueries
                    /\ heap' = [heap EXCEPT ![conn] = ExecutedCell(m, sql)]
                    /\ call' = [op |-> "db_execute", conn |-> conn, sql |-> sql,
                                ret |-> ExecutedCode(sql), seen |-> m]
                    /\ exec_ret' = [exec_ret EXCEPT ![conn] =
                                      [done |-> TRUE, ret |-> ExecutedCode(sql)]]
                    /\ accepted' = IF heap[conn].status = "live"
                                   THEN [accepted EXCEPT ![conn] = accepted[conn] + 1]
                                   ELSE accepted
  /\ invoked' = << >>
  /\ UNCHANGED << crashed, registry_vars, ext_vars >>

\* The string the caller reads through the pointer db_get_last_error returns.
LastErrorOf(m) == m.last_error

db_get_last_error(conn) ==
  /\ Running
  /\ IF conn = 0
     THEN /\ call' = [op |-> "db_get_last_error", conn |-> conn, str |-> "Null connection"]
          /\ uaf' = uaf
     ELSE \E m \in Contents(conn) :
            /\ call' = [op |-> "db_get_last_error", conn |-> conn, str |-> LastErrorOf(m)]
            /\ uaf' = (uaf \/ heap[conn].status # "live")
  /\ invoked' = << >>
  /\ UNCHANGED << heap, exec_ret, accepted, crashed, registry_vars, ext_vars >>

\* The object after free(conn->path) and free(conn): its contents are
\* indeterminate from here on (Contents), so none are kept.
ReleasedCell(m) == [NoCell EXCEPT !.status = "freed"]

db_close(conn) ==
  /\ Running
  /\ IF conn = 0
     THEN UNCHANGED << heap, uaf >>
     ELSE /\ heap' = [heap EXCEPT ![conn] = ReleasedCell(heap[conn])]
          /\ uaf' = (uaf \/ heap[conn].status # "live")
  /\ exec_ret' = [c \in Conns |-> IF c = conn THEN [done |-> FALSE, ret |-> SUCCESS]
                                             ELSE exec_ret[c]]
  /\ accepted' = [c \in Conns |-> IF c = conn THEN 0 ELSE accepted[c]]
  /\ call' = [op |-> "db_close", conn |-> conn]
  /\ invoked' = << >>
  /\ UNCHANGED << crashed, registry_vars, ext_vars >>

\* An access to a released object may also end the process.
Fault ==
  /\ Running
  /\ \E conn \in Handles :
       /\ conn # 0
       /\ heap[conn].status = "freed"
       /\ call' = [op |-> "fault", conn |-> conn]
  /\ crashed' = TRUE
  /\ uaf' = TRUE
  /\ invoked' = << >>
  /\ UNCHANGED << heap, exec_ret, accepted, registry_vars, ext_vars >>

NextDb ==
  \/ \E path \in Paths : db_open(path)
  \/ \E conn \in Handles, sql \in Commands : db_execute(conn, sql)
  \/ \E conn \in Handles : db_get_last_error(conn)
  \/ \E conn \in Handles : db_close(conn)
  \/ Fault

SpecDb == Init /\ [][NextDb]_vars

\* ------------------------------------------------------------ error handling

INT32_MIN == (0 - 2147483647) - 1
INT32_MAX == 2147483647

\* Error codes passed to c_error_message.
ErrorCodes == ((0 - MaxCode) .. MaxCode) \cup {INT32_MIN, INT32_MAX}

\* An InvalidInput message that repeats the NullPointer one.
c_error_message_repeated(error_code) ==
  CASE error_code = SUCCESS -> "Success"
    [] error_code = ERROR_NULL_POINTER -> "Null pointer provided"
    [] error_code = ERROR_INVALID_INPUT -> "Null pointer provided"
    [] error_code = ERROR_COMPUTATION_FAILED -> "Computation failed"
    [] OTHER -> "Unknown error"

\* The switch of c_error_message.
c_error_message(error_code) ==
  CASE error_code = SUCCESS -> "Success"
    [] error_code = ERROR_NULL_POINTER -> "Null pointer provided"
    [] error_code = ERROR_INVALID_INPUT -> "Invalid input"
    [] error_code = ERROR_COMPUTATION_FAILED -> "Computation failed"
    [] OTHER -> "Unknown error"

\* A call of c_error_message; the record keeps the call before it as well.
ErrorMessageCall(error_code) ==
  /\ Running
  /\ call' = [op |-> "c_error_message", code |-> error_code,
              str |-> c_error_message(error_code),
              prev_code |-> IF call.op = "c_error_message" THEN call.code ELSE error_code,
              prev_str |-> IF call.op = "c_error_message" THEN call.str
                           ELSE c_error_message(error_code)]
  /\ invoked' = << >>
  /\ UNCHANGED << crashed, registry_vars, db_vars, ext_vars >>

\* a / b of C for b # 0 and a quotient inside int32_t: the quotient with the
\* fraction discarded.  \div rounds down, which is the same for a quotient
\* >= 0; a negative quotient is rounded up.
TruncatedQuotient(a, b) ==
  IF a = 0 \/ (a < 0) = (b < 0) THEN a \div b
  ELSE IF a < 0 THEN (a + (b - 1)) \div b
  ELSE (a + (b + 1)) \div b

\* The one quotient of two int32_t that is outside int32_t: 2^31.
Overflows(a, b) == a = INT32_MIN /\ b = -1

\* Values passed to c_divide.
Dividends == {INT32_MIN, -7, -1, 0, 7, 10, INT32_MAX}
Divisors == {INT32_MIN, -2, -1, 0, 2, 3, INT32_MAX}

\* What the caller's variable holds before the call.
OutBefore == {42}

\* c_divide(a, b, result): result is NULL or points to a variable of the
\* caller holding `before`.  A quotient that does not fit int32_t is signed
\* overflow, undefined behaviour: the division traps and the process dies, or
\* the quotient wraps around to INT32_MIN.
c_divide(a, b, result_null, before) ==
  /\ Running
  /\ IF result_null
     THEN /\ call' = [op |-> "c_divide", a |-> a, b |-> b, result_null |-> TRUE,
                      before |-> before, out |-> before, ret |-> ERROR_NULL_POINTER]
          /\ crashed' = crashed
     ELSE IF b = 0
     THEN /\ call' = [op |-> "c_divide", a |-> a, b |-> b, result_null |-> FALSE,
                      before |-> before, out |-> before, ret |-> ERROR_INVALID_INPUT]
          /\ crashed' = crashed
     ELSE IF ~Overflows(a, b)
     THEN /\ call' = [op |-> "c_divide", a |-> a, b |-> b, result_null |-> FALSE,
                      before |-> before, out |-> TruncatedQuotient(a, b),
                      ret |-> SUCCESS]
          /\ crashed' = crashed
     ELSE \/ /\ call' = [op |-> "c_divide", a |-> a, b |-> b, result_null |-> FALSE,
                         before |-> before, out |-> before, ret |-> SUCCESS]
             /\ crashed' = TRUE
          \/ /\ call' = [op |-> "c_divide", a |-> a, b |-> b, result_null |-> FALSE,
                         before |-> before, out |-> INT32_MIN, ret |-> SUCCESS]
             /\ crashed' = crashed
  /\ invoked' = << >>
  /\ UNCHANGED << registry_vars, db_vars, ext_vars >>

NextPure ==
  \/ \E code \in ErrorCodes : ErrorMessageCall(code)
  \/ \E a \in Dividends, b \in Divisors, result_null \in BOOLEAN, before \in OutBefore :
       c_divide(a, b, result_null, before)

SpecPure == Init /\ [][NextPure]_vars

\* ------------------------------------------------ callbacks that re-enter

\* A trigger function runs its loop one callback at a time here: in_pass
\* holds the loop index, the value the function was given, whether the
\* callback at that index is running or the function has returned, and the
\* calls the callbacks of this pass have made into the registry so far.  The
\* three registries are told apart by kind.
Kinds == {"managed", "simple", "data"}

TriggerOp(kind) ==
  CASE kind = "managed" -> "trigger_managed_callbacks"
    [] kind = "simple" -> "trigger_simple_callbacks"
    [] OTHER -> "trigger_callbacks_with_data"

\* The bound in the loop condition, read again at every iteration.
LoopLimit(kind) ==
  CASE kind = "managed" -> MAX_CALLBACKS
    [] kind = "simple" -> simple_callback_count
    [] OTHER -> callback_with_data_count

\* Whether the loop body makes a call at index j.
Calls(kind, j) == IF kind = "managed" THEN Visits(j) ELSE TRUE

\* The function pointer the loop body calls through at index j.
CallbackAt(kind, j) ==
  CASE kind = "managed" -> managed_callbacks[j].callback
    [] kind = "simple" -> simple_callbacks[j]
    [] OTHER -> callbacks_with_data[j].callback

\* The invocation made at index j, with the number of calls the callbacks of
\* this pass had made into the registry before it.
InvocationAt(kind, j, value, events) ==
  [inv |-> CASE kind = "managed" -> Invocation(j, value)
             [] kind = "simple" -> SimpleInvocation(j, value)
             [] OTHER -> DataInvocation(j, value),
   after |-> Len(events)]

\* A loop that skips the index after a callback that has returned.
ResumedSkipping(i) == i + 2

\* The index the loop goes on with when the callback at index i has returned.
Resumed(i) == i + 1

\* The first index from `from` on at which the loop makes a call, -1 when the
\* loop condition fails first.
NextVisit(kind, from) ==
  LET at == { j \in Slots : j >= from /\ j < LoopLimit(kind) /\ Calls(kind, j) }
  IN  IF at = {} THEN 0 - 1 ELSE Min(at)

\* The loop index a pass returns with.
LastIndex(kind, from) == IF kind = "managed" THEN MAX_CALLBACKS ELSE from

\* The loop runs on from index `from`: it returns, or it makes its next
\* call, which ends the process when the function pointer is null.
Advance(kind, from, value, events, done) ==
  LET j == NextVisit(kind, from) IN
    IF j < 0
    THEN /\ in_pass' = [kind |-> kind, i |-> LastIndex(kind, from), value |-> value,
                         events |-> events, running |-> FALSE]
         /\ invoked' = done
         /\ crashed' = crashed
         /\ call' = [op |-> TriggerOp(kind), value |-> value]
    ELSE /\ in_pass' = [kind |-> kind, i |-> j, value |-> value, events |-> events,
                         running |-> TRUE]
         /\ call' = call
         /\ IF CallbackAt(kind, j) = NULL
            THEN invoked' = done /\ crashed' = TRUE
            ELSE /\ invoked' = Append(done, InvocationAt(kind, j, value, events))
                 /\ crashed' = crashed

\* A trigger function is called and runs up to its first callback.
trigger_calls(kind, value) ==
  /\ Running
  /\ in_pass = NoPass
  /\ Advance(kind, 0, value, << >>, << >>)
  /\ UNCHANGED << registry_vars, list_vars, db_vars >>

\* The running callback returns and the loop runs up to its next callback.
callback_returns(kind) ==
  /\ Running
  /\ in_pass.kind = kind
  /\ in_pass.running
  /\ Advance(kind, Resumed(in_pass.i), in_pass.value, in_pass.events, invoked)
  /\ UNCHANGED << registry_vars, list_vars, db_vars >>

\* Whether the running callback of a pass over `kind` may call the registry.
Reenters(kind) ==
  /\ Running
  /\ in_pass.kind = kind
  /\ in_pass.running
  /\ Len(in_pass.events) < MaxReenter

\* The pass after its running callback has made one more call.
Noted(op, slot, handle) ==
  [in_pass EXCEPT !.events =
     Append(@, [op |-> op, at |-> in_pass.i, slot |-> slot, handle |-> handle])]

\* register_managed_callback, called by the running callback.
nested_register_managed_callback(callback, user_data) ==
  /\ Reenters("managed")
  /\ LET i == FirstInactive IN
       IF i >= 0
       THEN /\ managed_callbacks' = RegisteredTable(i, callback, user_data)
            /\ next_handle' = AdvancedHandle
            /\ call' = [op |-> "register_managed_callback", callback |-> callback,
                        user_data |-> user_data,
                        ret |-> RegisteredTable(i, callback, user_data)[i].handle]
            /\ registrations' = Append(registrations,
                 [handle |-> RegisteredTable(i, callback, user_data)[i].handle,
                  callback |-> callback, user_data |-> user_data, slot |-> i])
            /\ in_pass' = Noted("register", i,
                                RegisteredTable(i, callback, user_data)[i].handle)
       ELSE /\ managed_callbacks' = FullTable(callback, user_data)
            /\ next_handle' = FullHandle
            /\ call' = [op |-> "register_managed_callback", callback |-> callback,
                        user_data |-> user_data, ret |-> NO_SPACE]
            /\ registrations' = registrations
            /\ in_pass' = Noted("register", 0 - 1, NO_SPACE)
  /\ UNCHANGED << revoked, invoked, crashed, list_vars, db_vars >>

\* unregister_managed_callback, called by the running callback.
nested_unregister_managed_callback(handle) ==
  /\ Reenters("managed")
  /\ LET i == MatchingSlot(handle) IN
       /\ managed_callbacks' = IF i >= 0 THEN RevokedTable(i) ELSE managed_callbacks
       /\ in_pass' = Noted("unregister", i, handle)
  /\ call' = [op |-> "unregister_managed_callback", handle |-> handle]
  /\ revoked' = IF handle \in IssuedHandles THEN revoked \cup {handle} ELSE revoked
  /\ UNCHANGED << next_handle, registrations, invoked, crashed, list_vars, db_vars >>

\* register_simple_callback, called by the running callback.
nested_register_simple_callback(callback) ==
  /\ Reenters("simple")
  /\ IF SimpleAccepts(callback)
     THEN /\ simple_callbacks' = SimpleStored(callback)
          /\ simple_callback_count' = SimpleCounted
          /\ since_clear' = [since_clear EXCEPT !.simple = Append(@, callback)]
          /\ in_pass' = Noted("register", simple_callback_count, 0)
     ELSE /\ UNCHANGED << simple_callbacks, simple_callback_count, since_clear >>
          /\ in_pass' = Noted("register", 0 - 1, 0)
  /\ call' = [op |-> "register_simple_callback", callback |-> callback,
              before |-> simple_callback_count]
  /\ UNCHANGED << callbacks_with_data, callback_with_data_count, invoked, crashed,
                  registry_vars, db_vars >>

\* clear_simple_callbacks, called by the running callback.
nested_clear_simple_callbacks ==
  /\ Reenters("simple")
  /\ simple_callback_count' = SimpleCleared
  /\ since_clear' = [since_clear EXCEPT !.simple = << >>]
  /\ in_pass' = Noted("clear", 0 - 1, 0)
  /\ call' = [op |-> "clear_simple_callbacks"]
  /\ UNCHANGED << simple_callbacks, callbacks_with_data, callback_with_data_count,
                  invoked, crashed, registry_vars, db_vars >>

\* register_callback_with_data, called by the running callback.
nested_register_callback_with_data(callback, user_data) ==
  /\ Reenters("data")
  /\ IF DataAccepts(callback, user_data)
     THEN /\ callbacks_with_data' = DataStored(callback, user_data)
          /\ callback_with_data_count' = DataCounted
          /\ since_clear' = [since_clear EXCEPT !.data =
               Append(@, [callback |-> callback, user_data |-> user_data])]
          /\ in_pass' = Noted("register", callback_with_data_count, 0)
     ELSE /\ UNCHANGED << callbacks_with_data, callback_with_data_count, since_clear >>
          /\ in_pass' = Noted("register", 0 - 1, 0)
  /\ call' = [op |-> "register_callback_with_data", callback |-> callback,
              user_data |-> user_data, before |-> callback_with_data_count]
  /\ UNCHANGED << simple_callbacks, simple_callback_count, invoked, crashed,
                  registry_vars, db_vars >>

\* clear_callbacks_with_data, called by the running callback.
nested_clear_callbacks_with_data ==
  /\ Reenters("data")
  /\ callback_with_data_count' = DataCleared
  /\ since_clear' = [since_clear EXCEPT !.data = << >>]
  /\ in_pass' = Noted("clear", 0 - 1, 0)
  /\ call' = [op |-> "clear_callbacks_with_data"]
  /\ UNCHANGED << simple_callbacks, simple_callback_count, callbacks_with_data,
                  invoked, crashed, registry_vars, db_vars >>

\* A behaviour of SpecReentrant works on one registry: the other two are as
\* they were at start.
OnlyUses(kind) ==
  /\ in_pass = NoPass
  /\ kind # "managed" => next_handle = 1
  /\ kind # "simple" => simple_callback_count = 0
  /\ kind # "data" => callback_with_data_count = 0

\* Handles the running callback revokes: the two oldest and the newest.
NestedRevokes == {1, 2, next_handle - 1}

\* One registry is filled from outside, then one trigger pass runs on it
\* whose callbacks call back into that registry.
NextReentrant ==
  \/ /\ OnlyUses("managed")
     /\ next_handle < MaxHandle
     /\ register_managed_callback("cbA", "ctx1")
  \/ /\ OnlyUses("simple")
     /\ register_simple_callback("cbA")
  \/ /\ OnlyUses("data")
     /\ callback_with_data_count < MaxList
     /\ register_callback_with_data("cbA", "ctx1")
  \/ \E v \in Values :
       /\ OnlyUses("managed")
       /\ trigger_calls("managed", v)
  \/ \E v \in Values :
       /\ OnlyUses("simple")
       /\ trigger_calls("simple", v)
  \/ \E v \in Values :
       /\ OnlyUses("data")
       /\ trigger_calls("data", v)
  \/ \E kind \in Kinds : callback_returns(kind)
  \/ \E r \in Registrations :
       /\ next_handle < MaxHandle
       /\ nested_register_managed_callback(r[1], r[2])
  \/ \E h \in NestedRevokes : nested_unregister_managed_callback(h)
  \/ nested_register_simple_callback("cbB")
  \/ nested_clear_simple_callbacks
  \/ nested_register_callback_with_data("cbB", "ctx2")
  \/ nested_clear_callbacks_with_data

SpecReentrant == Init /\ [][NextReentrant]_vars

\* ------------------------------------------------------------------ claims

ActiveSlots == { i \in Slots : managed_callbacks[i].active # 0 }

AllActive == ActiveSlots = Slots

\* C1: every handle a successful register returns is >= 1 and strictly
\* greater than every handle returned before it, also when the slot it lands
\* in is reused; the counter starts at 1 and has advanced by exactly one per
\* successful registration.
C1_HandlesStrictlyIncreasing ==
  /\ \A k \in 1 .. Len(registrations) : registrations[k].handle >= 1
  /\ \A j, k \in 1 .. Len(registrations) :
       j < k => registrations[j].handle < registrations[k].handle
  /\ next_handle = 1 + Len(registrations)
  /\ (call.op = "register_managed_callback" /\ call.ret # NO_SPACE) =>
       /\ Len(registrations) >= 1
       /\ call.ret = registrations[Len(registrations)].handle

\* A slot has been reused: two registrations landed in the same slot.
C1_Witness ==
  /\ call.op = "register_managed_callback"
  /\ call.ret = 4
  /\ \E j, k \in 1 .. Len(registrations) :
       j < k /\ registrations[j].slot = registrations[k].slot

\* C2: no two active slots carry the same handle, and every active slot's
\* handle is smaller than next_handle.
C2_ActiveHandlesUnique ==
  /\ \A i, j \in ActiveSlots :
       i # j => managed_callbacks[i].handle # managed_callbacks[j].handle
  /\ \A i \in ActiveSlots : managed_callbacks[i].handle < next_handle

\* Three active slots, the lowest one holding the youngest handle.
C2_Witness ==
  /\ Cardinality(ActiveSlots) >= 3
  /\ \E i, j \in ActiveSlots :
       i < j /\ managed_callbacks[i].handle > managed_callbacks[j].handle

\* C3: with all 16 slots active a register call returns -1, which is no
\* handle ever issued, and changes neither the table nor the counter.
C3_FullRegisterChangesNothing ==
  [][ (AllActive /\ call'.op = "register_managed_callback") =>
        /\ call'.ret = NO_SPACE
        /\ NO_SPACE \notin IssuedHandles
        /\ managed_callbacks' = managed_callbacks
        /\ next_handle' = next_handle
        /\ registrations' = registrations ]_vars

\* A register call has just failed on a full table.
C3_Witness ==
  /\ AllActive
  /\ call.op = "register_managed_callback"
  /\ call.ret = NO_SPACE
  /\ Len(registrations) >= MAX_CALLBACKS

\* The slots an unregister step writes to.
ChangedSlots == { i \in Slots : managed_callbacks'[i] # managed_callbacks[i] }

\* C4: unregister(h) modifies at most the one active slot whose handle is h
\* and never the counter; when no active slot has handle h the registry is
\* unchanged.
C4_UnregisterFrame ==
  [][ call'.op = "unregister_managed_callback" =>
        /\ next_handle' = next_handle
        /\ Cardinality(ChangedSlots) <= 1
        /\ \A i \in ChangedSlots :
             /\ managed_callbacks[i].active # 0
             /\ managed_callbacks[i].handle = call'.handle
        /\ (\A i \in ActiveSlots : managed_callbacks[i].handle # call'.handle) =>
             managed_callbacks' = managed_callbacks ]_vars

\* unregister has returned for an issued handle while other registrations,
\* one of them in a reused slot, stay active.
C4_Witness ==
  /\ call.op = "unregister_managed_callback"
  /\ call.handle \in IssuedHandles
  /\ \A i \in ActiveSlots : managed_callbacks[i].handle # call.handle
  /\ Cardinality(ActiveSlots) >= 2
  /\ \E i, j \in ActiveSlots :
       i < j /\ managed_callbacks[i].handle > managed_callbacks[j].handle

\* The registration that was issued handle h.
RegistrationOf(h) ==
  registrations[CHOOSE k \in 1 .. Len(registrations) : registrations[k].handle = h]

\* The invocations of the last call that went to the registration issued h.
InvocationsOf(h) ==
  { k \in 1 .. Len(invoked) :
      /\ invoked[k].handle = h
      /\ invoked[k].callback = RegistrationOf(h).callback
      /\ invoked[k].user_data = RegistrationOf(h).user_data }

\* C5: once unregister(h) has returned, no later trigger invokes the
\* registration that was issued h; and every registration still active is
\* invoked exactly once by every trigger call.
C5_RevokedNeverActiveOnce ==
  call.op = "trigger_managed_callbacks" =>
    /\ \A k \in 1 .. Len(invoked) : invoked[k].handle \notin revoked
    /\ \A i \in ActiveSlots :
         Cardinality(InvocationsOf(managed_callbacks[i].handle)) = 1

\* The handles of the invocations of the last call, in the order made.
InvokedHandles == [k \in 1 .. Len(invoked) |-> invoked[k].handle]

\* The active slots below the first active slot whose callback is null.
CallableSlots ==
  { i \in ActiveSlots :
      \A j \in ActiveSlots : j <= i => managed_callbacks[j].callback # NULL }

\* Three entries were registered, the first was revoked and a fourth was
\* registered (into the slot of the first); all but the first are active.
ThreeOneFourth ==
  /\ Len(registrations) = 4
  /\ [k \in 1 .. 4 |-> registrations[k].slot] = << 0, 1, 2, 0 >>
  /\ revoked = {1}

\* C6: trigger(value) makes its invocations in increasing slot order, each
\* with the callback and context stored in its slot and the given value; a
\* pass that returns has invoked every active slot, and a pass that dies on a
\* null callback has invoked the active slots before it.  Slot order is not
\* handle order: with handles 1..4 issued and 1 revoked, the entry with
\* handle 4 (slot 0) is invoked before those with handles 2 and 3.
C6_TriggerInSlotOrder ==
  call.op = "trigger_managed_callbacks" =>
    /\ \A k \in 1 .. Len(invoked) :
         /\ invoked[k].slot \in ActiveSlots
         /\ invoked[k].callback = managed_callbacks[invoked[k].slot].callback
         /\ invoked[k].user_data = managed_callbacks[invoked[k].slot].user_data
         /\ invoked[k].handle = managed_callbacks[invoked[k].slot].handle
         /\ invoked[k].value = call.value
    /\ \A j, k \in 1 .. Len(invoked) : j < k => invoked[j].slot < invoked[k].slot
    /\ { invoked[k].slot : k \in 1 .. Len(invoked) } = CallableSlots
    /\ crashed = (CallableSlots # ActiveSlots)
    /\ ( /\ ThreeOneFourth
         /\ ~crashed ) => InvokedHandles = << 4, 2, 3 >>

\* Three registered, the first revoked, a fourth registered, then triggered.
C6_Witness ==
  /\ call.op = "trigger_managed_callbacks"
  /\ ThreeOneFourth
  /\ InvokedHandles = << 4, 2, 3 >>
  /\ [k \in 1 .. Len(invoked) |-> invoked[k].slot] = << 0, 1, 2 >>

\* C7 as stated: an inactive slot holds no callback or context reference.
C7_InactiveSlotsCleared ==
  \A i \in Slots \ ActiveSlots :
    /\ managed_callbacks[i].callback = NULL
    /\ managed_callbacks[i].user_data = NULL

\* C7, amended: unregister(h) on an active handle only marks the slot
\* inactive; the slot keeps its handle, callback and context.  An inactive
\* slot is therefore either untouched since start-up or holds what the last
\* registration into it stored, and that registration has been revoked.
C7_UnregisterKeepsReferences ==
  /\ [] (\A i \in Slots \ ActiveSlots :
           \/ managed_callbacks[i] = ZeroSlot
           \/ \E k \in 1 .. Len(registrations) :
                /\ registrations[k].slot = i
                /\ registrations[k].handle \in revoked
                /\ managed_callbacks[i] =
                     [handle |-> registrations[k].handle,
                      callback |-> registrations[k].callback,
                      user_data |-> registrations[k].user_data, active |-> 0])
  /\ [][ call'.op = "unregister_managed_callback" =>
           \A i \in Slots :
             IF managed_callbacks[i].active # 0 /\ managed_callbacks[i].handle = call'.handle
             THEN managed_callbacks'[i] = [managed_callbacks[i] EXCEPT !.active = 0]
             ELSE managed_callbacks'[i] = managed_callbacks[i] ]_vars

\* unregister has just revoked a registration whose callback and context are
\* still stored in the now inactive slot.
C7_Witness ==
  /\ call.op = "unregister_managed_callback"
  /\ \E i \in Slots \ ActiveSlots :
       /\ managed_callbacks[i].handle = call.handle
       /\ managed_callbacks[i].callback # NULL
       /\ managed_callbacks[i].user_data # NULL

\* The command holds the characters E, R, R, O, R next to each other.
HasErrorMarker(chars) ==
  \E k \in 1 .. Len(chars) :
    /\ k + 4 <= Len(chars)
    /\ << chars[k], chars[k + 1], chars[k + 2], chars[k + 3], chars[k + 4] >>
         = << "E", "R", "R", "O", "R" >>

LiveConns == { c \in Conns : heap[c].status = "live" }

\* The last call was a db_execute on a live resource with a command.
ExecutedOnLive ==
  /\ call.op = "db_execute"
  /\ call.conn # 0
  /\ ~call.sql.null
  /\ call.seen.status = "live"

\* C8: on a resource db_open returned and nobody closed, db_execute with a
\* command returns ComputationFailed exactly when the command contains
\* "ERROR" and Success otherwise; from then on, until the next such execute,
\* the last error is empty exactly when that execute returned Success, and
\* db_get_last_error returns it and changes nothing.
C8_ExecuteSetsLastError ==
  /\ [] ( /\ ExecutedOnLive =>
               /\ HasErrorMarker(call.sql.chars) => call.ret = ERROR_COMPUTATION_FAILED
               /\ ~HasErrorMarker(call.sql.chars) => call.ret = SUCCESS
               /\ exec_ret[call.conn] = [done |-> TRUE, ret |-> call.ret]
          /\ \A c \in LiveConns :
               exec_ret[c].done =>
                 ((heap[c].last_error = "") <=> (exec_ret[c].ret = SUCCESS))
          /\ ( /\ call.op = "db_get_last_error"
               /\ call.conn \in LiveConns
               /\ exec_ret[call.conn].done ) =>
                 ((call.str = "") <=> (exec_ret[call.conn].ret = SUCCESS)) )
  /\ [][ call'.op = "db_get_last_error" => (heap' = heap /\ exec_ret' = exec_ret) ]_vars

\* db_get_last_error has returned a non-empty error on a live resource whose
\* latest execute, not its first, failed.
C8_Witness ==
  /\ call.op = "db_get_last_error"
  /\ call.conn \in LiveConns
  /\ exec_ret[call.conn] = [done |-> TRUE, ret |-> ERROR_COMPUTATION_FAILED]
  /\ call.str # ""
  /\ heap[call.conn].query_count >= 2

\* C9: after db_close(h) a db_execute(h, cmd) is rejected with a failure
\* code, and no operation reads, writes or frees the released resource.
C9_CloseIsTerminal ==
  /\ ~uaf
  /\ ( /\ call.op = "db_execute"
       /\ call.conn # 0
       /\ ~call.sql.null
       /\ call.seen.status = "freed" ) => call.ret < SUCCESS

\* C10: a rejected db_execute returns the code of its cause and leaves the
\* operation count alone: NullPointer exactly when the handle or the command
\* is absent, and then nothing changes; InvalidInput exactly when both are
\* present and the resource is found not connected, and then "Not connected"
\* is the last error and nothing else changes.
C10_RejectedExecute ==
  /\ [] ( call.op = "db_execute" =>
            /\ (call.ret = ERROR_NULL_POINTER) <=> (call.conn = 0 \/ call.sql.null)
            /\ (call.ret = ERROR_INVALID_INPUT) <=>
                 (call.conn # 0 /\ ~call.sql.null /\ call.seen.connected = 0)
            /\ (call.ret = ERROR_INVALID_INPUT) =>
                 /\ heap[call.conn].last_error = "Not connected"
                 /\ heap[call.conn].query_count = call.seen.query_count
                 /\ heap[call.conn] = [call.seen EXCEPT !.last_error = "Not connected"] )
  /\ [][ (call'.op = "db_execute" /\ call'.ret = ERROR_NULL_POINTER) =>
           (heap' = heap /\ exec_ret' = exec_ret) ]_vars
  /\ [][ (call'.op = "db_execute" /\ call'.ret = ERROR_INVALID_INPUT) =>
           \A c \in Conns : c # call'.conn => heap'[c] = heap[c] ]_vars

\* A db_execute without a command has been rejected on a live resource that
\* has already executed commands.
C10_Witness ==
  /\ call.op = "db_execute"
  /\ call.sql.null
  /\ call.conn \in LiveConns
  /\ call.ret = ERROR_NULL_POINTER
  /\ heap[call.conn].query_count >= 1

\* C11: in the simple and in the context registry a register call with 16
\* entries stored, or with a null callback, changes nothing, and any other
\* register call appends exactly one entry; so the count stays within 0..16
\* and every entry below the count has a non-null callback.
C11_ListRegister ==
  /\ [] ( /\ simple_callback_count \in 0 .. MAX_CALLBACKS
          /\ callback_with_data_count \in 0 .. MAX_CALLBACKS
          /\ \A i \in Slots : i < simple_callback_count => simple_callbacks[i] # NULL
          /\ \A i \in Slots :
               i < callback_with_data_count => callbacks_with_data[i].callback # NULL )
  /\ [][ call'.op = "register_simple_callback" =>
           IF simple_callback_count = MAX_CALLBACKS \/ call'.callback = NULL
           THEN /\ simple_callback_count' = simple_callback_count
                /\ simple_callbacks' = simple_callbacks
           ELSE /\ simple_callback_count' = simple_callback_count + 1
                /\ simple_callbacks' =
                     [simple_callbacks EXCEPT ![simple_callback_count] = call'.callback] ]_vars
  /\ [][ call'.op = "register_callback_with_data" =>
           IF callback_with_data_count = MAX_CALLBACKS \/ call'.callback = NULL
           THEN /\ callback_with_data_count' = callback_with_data_count
                /\ callbacks_with_data' = callbacks_with_data
           ELSE /\ callback_with_data_count' = callback_with_data_count + 1
                /\ callbacks_with_data' =
                     [callbacks_with_data EXCEPT ![callback_with_data_count] =
                        [callback |-> call'.callback, user_data |-> call'.user_data]] ]_vars

\* A register call with a callback has just been turned away by a full
\* simple registry, the context registry holding entries of its own.
C11_Witness ==
  /\ call.op = "register_simple_callback"
  /\ call.callback # NULL
  /\ call.before = MAX_CALLBACKS
  /\ simple_callback_count = MAX_CALLBACKS
  /\ callback_with_data_count >= 1

\* C12: trigger_simple_callbacks and trigger_callbacks_with_data invoke
\* exactly the entries accepted since the last clear, once each and in the
\* order of their registration, with the triggered value and, in the context
\* registry, the context registered with the callback; trigger changes
\* neither list.
C12_ListTriggerInOrder ==
  /\ [] ( /\ call.op = "trigger_simple_callbacks" =>
               /\ ~crashed
               /\ [k \in 1 .. Len(invoked) |-> invoked[k].callback] = since_clear.simple
               /\ \A k \in 1 .. Len(invoked) :
                    invoked[k].value = call.value /\ invoked[k].slot = k - 1
          /\ call.op = "trigger_callbacks_with_data" =>
               /\ ~crashed
               /\ [k \in 1 .. Len(invoked) |->
                     [callback |-> invoked[k].callback,
                      user_data |-> invoked[k].user_data]] = since_clear.data
               /\ \A k \in 1 .. Len(invoked) :
                    invoked[k].value = call.value /\ invoked[k].slot = k - 1 )
  /\ [][ call'.op \in {"trigger_simple_callbacks", "trigger_callbacks_with_data"} =>
           /\ simple_callbacks' = simple_callbacks
           /\ simple_callback_count' = simple_callback_count
           /\ callbacks_with_data' = callbacks_with_data
           /\ callback_with_data_count' = callback_with_data_count ]_vars

\* The context registry has been triggered with two entries of different
\* contexts registered after a clear that left an older entry behind them.
C12_Witness ==
  /\ call.op = "trigger_callbacks_with_data"
  /\ Len(invoked) = 2
  /\ invoked[1].user_data # invoked[2].user_data
  /\ callbacks_with_data[2].callback # NULL

\* C13: clear_simple_callbacks and clear_callbacks_with_data set the count to
\* zero whatever it was, touching neither their own array nor any other
\* registry; a trigger directly after a clear invokes nothing; the entries a
\* trigger invokes are those at the indexes below the count, all stored since
\* the last clear, so the 16 places are free again and nothing registered
\* before a clear is invoked after it.
C13_ClearResets ==
  /\ [] ( /\ call.op = "clear_simple_callbacks" =>
               simple_callback_count = 0 /\ since_clear.simple = << >>
          /\ call.op = "clear_callbacks_with_data" =>
               callback_with_data_count = 0 /\ since_clear.data = << >>
          /\ Len(since_clear.simple) = simple_callback_count
          /\ Len(since_clear.data) = callback_with_data_count
          /\ \A i \in Slots :
               i < simple_callback_count => simple_callbacks[i] = since_clear.simple[i + 1]
          /\ \A i \in Slots :
               i < callback_with_data_count =>
                 callbacks_with_data[i] = since_clear.data[i + 1]
          /\ call.op = "trigger_simple_callbacks" =>
               { invoked[k].slot : k \in 1 .. Len(invoked) } =
                 { i \in Slots : i < simple_callback_count }
          /\ call.op = "trigger_callbacks_with_data" =>
               { invoked[k].slot : k \in 1 .. Len(invoked) } =
                 { i \in Slots : i < callback_with_data_count } )
  /\ [][ call'.op = "clear_simple_callbacks" =>
           /\ simple_callbacks' = simple_callbacks
           /\ callbacks_with_data' = callbacks_with_data
           /\ callback_with_data_count' = callback_with_data_count
           /\ managed_callbacks' = managed_callbacks
           /\ next_handle' = next_handle ]_vars
  /\ [][ call'.op = "clear_callbacks_with_data" =>
           /\ callbacks_with_data' = callbacks_with_data
           /\ simple_callbacks' = simple_callbacks
           /\ simple_callback_count' = simple_callback_count
           /\ managed_callbacks' = managed_callbacks
           /\ next_handle' = next_handle ]_vars
  /\ [][ (call.op = "clear_simple_callbacks" /\ call'.op = "trigger_simple_callbacks") =>
           invoked' = << >> ]_vars
  /\ [][ (call.op = "clear_callbacks_with_data"
            /\ call'.op = "trigger_callbacks_with_data") => invoked' = << >> ]_vars

\* A simple registry that had been filled to 16 was cleared and has since
\* taken 15 new entries, which a trigger has just invoked, while the context
\* registry kept its entries.
C13_Witness ==
  /\ call.op = "trigger_simple_callbacks"
  /\ simple_callbacks[MAX_CALLBACKS - 1] # NULL
  /\ simple_callback_count = MAX_CALLBACKS - 1
  /\ Len(invoked) = MAX_CALLBACKS - 1
  /\ callback_with_data_count >= 1

\* C14: c_error_message answers every int32 code: the codes 0, -1, -2 and
\* -3 get a non-empty message other than "Unknown error", two different
\* codes among them get two different messages, and every other code gets
\* "Unknown error".
C14_ErrorMessages ==
  call.op = "c_error_message" =>
    /\ call.code \in {0, -1, -2, -3} =>
         /\ call.str # ""
         /\ call.str # "Unknown error"
         /\ (call.prev_code \in {0, -1, -2, -3} /\ call.prev_code # call.code) =>
              call.prev_str # call.str
    /\ call.code \notin {0, -1, -2, -3} => call.str = "Unknown error"

\* The message of InvalidInput asked for right after that of NullPointer.
C14_Witness ==
  /\ call.op = "c_error_message"
  /\ call.code = -2
  /\ call.prev_code = -1

\* C15: c_divide returns NullPointer when the output is absent; otherwise
\* with b = 0 it returns InvalidInput and leaves the output as it was, and
\* with b # 0 it returns Success having stored the quotient a / b truncated
\* toward zero, at a = -2^31, b = -1 as well, where that quotient is
\* INT32_MAX + 1.  The truncated quotient q of a by b is the one whose
\* remainder a - q * b is smaller than b in magnitude and has the sign of a.
C15_DivideContract ==
  call.op = "c_divide" =>
    /\ ~crashed
    /\ call.result_null => call.ret = -1
    /\ (~call.result_null /\ call.b = 0) =>
         call.ret = -2 /\ call.out = call.before
    /\ (~call.result_null /\ call.b # 0) =>
         /\ call.ret = 0
         /\ IF call.a = INT32_MIN /\ call.b = -1
            THEN call.out > INT32_MAX
            ELSE LET r == call.a - call.out * call.b
                 IN /\ call.a >= 0 => r >= 0
                    /\ call.a <= 0 => r <= 0
                    /\ IF call.b > 0 THEN r < call.b /\ 0 - r < call.b
                       ELSE call.b < r /\ call.b < 0 - r

\* C16: a register call succeeds exactly when some slot is inactive; it then
\* fills the lowest-index inactive slot with the callback, the context and
\* the returned handle and changes no other slot.  When exactly one slot is
\* inactive, as after one revocation on a full table, that slot is the one
\* filled, with a handle never issued before.
C16_RegisterFirstFit ==
  [][ call'.op = "register_managed_callback" =>
        LET free == Slots \ ActiveSlots IN
          /\ (call'.ret # NO_SPACE) <=> (free # {})
          /\ free # {} =>
               \E i \in free :
                 /\ \A j \in free : i <= j
                 /\ ChangedSlots = {i}
                 /\ managed_callbacks'[i] =
                      [handle |-> call'.ret, callback |-> call'.callback,
                       user_data |-> call'.user_data, active |-> 1]
          /\ \A k \in Slots :
               free = {k} =>
                 /\ ChangedSlots = {k}
                 /\ call'.ret \notin IssuedHandles
                 /\ call'.ret # managed_callbacks[k].handle ]_vars

\* The table was filled, handle 2 was revoked, and the 17th registration
\* has gone into its slot 1 while slot 0 and the slots above are occupied.
C16_Witness ==
  /\ call.op = "register_managed_callback"
  /\ Len(registrations) = MAX_CALLBACKS + 1
  /\ revoked = {2}
  /\ registrations[MAX_CALLBACKS + 1].slot = 1
  /\ call.ret = MAX_CALLBACKS + 1
  /\ managed_callbacks[1].handle = call.ret
  /\ AllActive

\* C17: the operation count of a resource is 0 when db_open returns it and
\* is changed by db_execute alone: an execute that passes the null check
\* and the open check, returning Success or ComputationFailed, adds exactly
\* 1, and a rejected execute, db_get_last_error and every call on another
\* resource leave it as it is.  So on a resource that is open the count is
\* the number of executes accepted since its db_open.
C17_OperationCount ==
  /\ [] ( /\ \A c \in LiveConns : heap[c].query_count = accepted[c]
          /\ (call.op = "db_open" /\ call.conn # 0) =>
               heap[call.conn].query_count = 0 )
  /\ [][ \A c \in LiveConns :
           heap'[c].status = "live" =>
             IF /\ call'.op = "db_execute"
                /\ call'.conn = c
                /\ call'.ret \in {SUCCESS, ERROR_COMPUTATION_FAILED}
             THEN heap'[c].query_count = heap[c].query_count + 1
             ELSE heap'[c].query_count = heap[c].query_count ]_vars

\* A failing command has just been counted as the third accepted execute of
\* a resource, while another open resource still has count 0.
C17_Witness ==
  /\ call.op = "db_execute"
  /\ call.conn \in LiveConns
  /\ call.ret = ERROR_COMPUTATION_FAILED
  /\ heap[call.conn].query_count = MaxQueries
  /\ \E c \in LiveConns : c # call.conn /\ heap[c].query_count = 0

\* C18: every active managed slot holds a non-null callback, whatever
\* register_managed_callback was called with, so that a trigger pass never
\* calls through a null function pointer.
C18_ActiveSlotsCallable ==
  /\ \A i \in ActiveSlots : managed_callbacks[i].callback # NULL
  /\ call.op = "trigger_managed_callbacks" => ~crashed

\* C20: a resource that db_open returned and nobody closed is connected in
\* every state: no db_execute on it returns InvalidInput or records "Not
\* connected", and db_close releases it straight from the connected state.
C20_OpenUntilClosed ==
  /\ [] ( /\ \A c \in LiveConns :
               /\ heap[c].connected # 0
               /\ heap[c].last_error # "Not connected"
          /\ ExecutedOnLive => call.ret # ERROR_INVALID_INPUT
          /\ (call.op = "db_open" /\ call.conn # 0) => heap[call.conn].connected = 1 )
  /\ [][ (call'.op = "db_close" /\ call'.conn \in LiveConns) =>
           /\ heap[call'.conn].connected # 0
           /\ heap'[call'.conn].status = "freed" ]_vars

\* A command has been executed on an open resource after the other resource
\* was opened, used and closed.
C20_Witness ==
  /\ ExecutedOnLive
  /\ call.ret = SUCCESS
  /\ heap[call.conn].connected = 1
  /\ heap[call.conn].query_count >= 2
  /\ \E c \in Conns : c # call.conn /\ heap[c].status = "freed"
  /\ ~uaf

\* The entries the callbacks of the pass have registered: positions in the
\* calls they made.
RegisteredInPass ==
  { p \in 1 .. Len(in_pass.events) :
      in_pass.events[p].op = "register" /\ in_pass.events[p].slot >= 0 }

\* The managed entry registered by call p was invoked by the pass.
ManagedInvoked(p) ==
  \E k \in 1 .. Len(invoked) : invoked[k].inv.handle = in_pass.events[p].handle

\* The managed entry registered by call p was revoked by a later call while
\* the pass was still before its slot.
RevokedBeforeReached(p) ==
  \E q \in (p + 1) .. Len(in_pass.events) :
    /\ in_pass.events[q].op = "unregister"
    /\ in_pass.events[q].handle = in_pass.events[p].handle
    /\ in_pass.events[q].slot = in_pass.events[p].slot
    /\ in_pass.events[q].at < in_pass.events[p].slot

\* The list entry appended by call p was invoked by the pass: the pass made
\* a call at its index after p and with no clear in between.
ListInvoked(p) ==
  \E k \in 1 .. Len(invoked) :
    /\ invoked[k].inv.slot = in_pass.events[p].slot
    /\ invoked[k].after >= p
    /\ \A q \in (p + 1) .. invoked[k].after : in_pass.events[q].op # "clear"

\* The list entry appended by call p was cleared by a later call while the
\* pass was still before its index.
ClearedBeforeReached(p) ==
  \E q \in (p + 1) .. Len(in_pass.events) :
    /\ in_pass.events[q].op = "clear"
    /\ in_pass.events[q].at < in_pass.events[p].slot

\* What holds of every pass whose callbacks re-enter: at most 16
\* invocations, made at increasing indexes inside the table, and in the
\* managed registry no invocation of an entry revoked before its slot was
\* reached.
BoundedPass ==
  /\ Len(invoked) <= MAX_CALLBACKS
  /\ in_pass.running => in_pass.i \in Slots
  /\ \A k \in 1 .. Len(invoked) :
       /\ invoked[k].inv.slot \in Slots
       /\ k > 1 => invoked[k - 1].inv.slot < invoked[k].inv.slot
  /\ in_pass.kind = "managed" =>
       \A q \in 1 .. Len(in_pass.events) :
         ( /\ in_pass.events[q].op = "unregister"
           /\ in_pass.events[q].slot > in_pass.events[q].at ) =>
             \A k \in 1 .. Len(invoked) :
               invoked[k].inv.handle # in_pass.events[q].handle

\* C19 as stated: a pass whose callbacks register, unregister or clear makes
\* at most 16 invocations with its index inside the table; in the managed
\* registry an entry revoked before its slot is reached is not invoked, and
\* an entry registered during the pass is invoked in it exactly when it
\* lands in a slot after the current one; in the simple and context
\* registries every entry appended during the pass is invoked in it, and no
\* invocation follows a clear.
C19_ReentrantPassAsStated ==
  in_pass.kind \in Kinds =>
    /\ BoundedPass
    /\ (~in_pass.running /\ in_pass.kind = "managed") =>
         \A p \in RegisteredInPass :
           ManagedInvoked(p) <=> (in_pass.events[p].slot > in_pass.events[p].at)
    /\ (~in_pass.running /\ in_pass.kind # "managed") =>
         /\ \A p \in RegisteredInPass : ListInvoked(p)
         /\ \A q \in 1 .. Len(in_pass.events) :
              in_pass.events[q].op = "clear" =>
                \A k \in 1 .. Len(invoked) : invoked[k].after < q

\* C19, amended: a pass whose callbacks register, unregister or clear makes
\* at most 16 invocations with its index inside the table, and it returns
\* unless it reaches an active managed slot whose callback is null, where
\* the process dies.  When it has returned: in the managed registry no entry
\* revoked before its slot was reached has been invoked, and an entry
\* registered during the pass has been invoked exactly when it landed in a
\* slot after the current one and was not revoked before the pass reached
\* that slot; in the simple and context registries an entry appended during
\* the pass has been invoked exactly when it landed at an index after the
\* current one and no clear came before the pass reached that index, and
\* every invocation that follows a clear is of an entry appended after it.
C19_ReentrantPass ==
  in_pass.kind \in Kinds =>
    /\ BoundedPass
    /\ crashed =>
         /\ in_pass.kind = "managed"
         /\ in_pass.running
         /\ managed_callbacks[in_pass.i].active # 0
         /\ managed_callbacks[in_pass.i].callback = NULL
    /\ (~in_pass.running /\ in_pass.kind = "managed") =>
         \A p \in RegisteredInPass :
           ManagedInvoked(p) <=>
             ( /\ in_pass.events[p].slot > in_pass.events[p].at
               /\ ~RevokedBeforeReached(p) )
    /\ (~in_pass.running /\ in_pass.kind # "managed") =>
         /\ \A p \in RegisteredInPass :
              ListInvoked(p) <=>
                ( /\ in_pass.events[p].slot > in_pass.events[p].at
                  /\ ~ClearedBeforeReached(p) )
         /\ \A q \in 1 .. Len(in_pass.events) :
              in_pass.events[q].op = "clear" =>
                \A k \in 1 .. Len(invoked) :
                  invoked[k].after >= q =>
                    \E p \in RegisteredInPass :
                      /\ q < p
                      /\ p <= invoked[k].after
                      /\ in_pass.events[p].slot = invoked[k].inv.slot

\* A pass over the simple list has returned whose first callback cleared the
\* list and appended two entries: the first of them landed at the current
\* index and was not invoked, the second was invoked after the clear.
C19_Witness ==
  /\ in_pass.kind = "simple"
  /\ ~in_pass.running
  /\ Len(in_pass.events) = 3
  /\ in_pass.events[1].op = "clear"
  /\ RegisteredInPass = {2, 3}
  /\ ~ListInvoked(2)
  /\ ListInvoked(3)
  /\ Len(invoked) = 2

====
